---- MODULE Spec2Model ----
(***************************************************************************)
(* The scheduler of rusty-workers-proxy (src/rusty-workers-proxy/src/      *)
(* sched.rs): request routing, the per-app pool of ready instances, the    *)
(* runtime registry and the configuration reconciler, as one state machine *)
(* of concurrently running tasks.                                          *)
(*                                                                         *)
(* Tasks: the request handlers Reqs (Scheduler::handle_request), the       *)
(* refresh task (check_config_update, which runs populate_config,          *)
(* discover_runtimes and query_runtimes inline), and two tasks that call   *)
(* discover_runtimes and query_runtimes on their own.                      *)
(*                                                                         *)
(* Atomicity: one action is one critical section of one lock, or one       *)
(* access to the ArcSwap'd Config, or the return of one RPC / HTTP fetch,  *)
(* together with the task-local computation around it.  The per-app mutex  *)
(* ready_instances and the lock route_mappings are never held across an    *)
(* await, so they need no state of their own; apps and clients are held    *)
(* across awaits (by handle_request, get_instance and query_runtimes) and  *)
(* are modelled as tokio's fair RwLock: a FIFO queue of waiters, readers   *)
(* admitted as long as no writer waits ahead of them.  The scan of the     *)
(* loads by min_by_key, which has no await, is one step.                   *)
(*                                                                         *)
(* History: req[q].log, gets, discarded and quiet, tick, and               *)
(* bg[PROBE].answers (what load() answered in the probe task's current or  *)
(* last run) record what a request, a refresh tick or the probe has done   *)
(* so far; nothing the program does depends on them.                       *)
(*                                                                         *)
(* Spec is the whole system.  SpecRetry, SpecPool, SpecShare, SpecRecon   *)
(* and SpecRegistry are parts of it: some of its tasks, started from a     *)
(* state the whole system reaches after its first refresh (SpecRecon: from *)
(* Scheduler::new).  SpecRoute follows a request up to the resolution of   *)
(* its route, over many route tables.  SpecLive runs each operation to its *)
(* end against the others, under weak fairness of every started task.      *)
(***************************************************************************)
EXTENDS Integers, Sequences, FiniteSets, TLC

\* ------------------------------------------------------------------ bounds
MaxTime == 1       \* the monotonic clock runs 0..MaxTime
MaxLoad == 1       \* load values a runtime reports, 0..MaxLoad
MaxBody == 2       \* request body sizes, 1..MaxBody

\* ---------------------------------------------------------------- universe
Reqs == {"q1", "q2"}
REFRESH == "refresh"
DISCOVER == "discover"
PROBE == "probe"
BgTasks == {REFRESH, DISCOVER, PROBE}
Tasks == Reqs \cup BgTasks

RuntimeIds == {1, 2}          \* RuntimeId, in BTreeMap key order
AppIds == {1, 2}              \* AppId, in BTreeMap key order
Addrs == {1, 2, 3}            \* SocketAddr, in BTreeSet order
Loads == 0..MaxLoad
None == "None"
NoId == 0                     \* Option::None of an AppId or RuntimeId
Unset == <<>>                 \* a local that holds no Config or instance yet

\* The runtime process that answers id() behind each address: addresses 1
\* and 2 lead to the same runtime.
AddrRt == <<1, 1, 2>>

\* --------------------------------------------------------------- strings
\* A String is a sequence of characters; Rust orders strings byte-wise.
CharOrder == <<"/", "8", ":", "a", "b", "c", "x", "z">>

CharRank(c) == CHOOSE i \in 1..Len(CharOrder) : CharOrder[i] = c

\* str::starts_with
StartsWith(s, p) ==
    /\ Len(p) =< Len(s)
    /\ \A i \in 1..Len(p) : s[i] = p[i]

\* Ord for String: lexicographic, a proper prefix is smaller.
RECURSIVE StrLess(_, _)
StrLess(a, b) ==
    IF b = <<>> THEN FALSE
    ELSE IF a = <<>> THEN TRUE
    ELSE IF Head(a) = Head(b) THEN StrLess(Tail(a), Tail(b))
    ELSE CharRank(Head(a)) < CharRank(Head(b))

\* The least key of a non-empty set of strings.
MinStr(S) == CHOOSE k \in S : \A o \in S \ {k} : StrLess(k, o)

\* The greatest key of a non-empty set of strings.
MaxStr(S) == CHOOSE k \in S : \A o \in S \ {k} : StrLess(o, k)

\* host.split(":").nth(0): the text before the first ':'.
RECURSIVE StripPort(_)
StripPort(h) ==
    IF h = <<>> \/ Head(h) = ":" THEN <<>>
    ELSE <<Head(h)>> \o StripPort(Tail(h))

\* ----------------------------------------------------------------- Config
DefaultConfig ==
    [ runtime_cluster |-> {},
      apps |-> <<>>,
      instance_expiration_time_ms |-> 540000,
      request_timeout_ms |-> 30000,
      max_request_body_size_bytes |-> 2097152 ]

\* The configuration documents the config URL can serve: one with two
\* apps whose prefixes nest, one with the second app alone, a different
\* cluster and different limits.
DocTwoApps ==
    [ runtime_cluster |-> {1},
      apps |-> << [ id |-> 1, script |-> "s1",
                    routes |-> << [domain |-> <<"x">>, path_prefix |-> <<"/">>] >> ],
                  [ id |-> 2, script |-> "s2",
                    routes |-> << [domain |-> <<"x">>, path_prefix |-> <<"/", "b">>] >> ] >>,
      instance_expiration_time_ms |-> 1,
      request_timeout_ms |-> 1,
      max_request_body_size_bytes |-> 1 ]

DocOneApp ==
    [ runtime_cluster |-> {3},
      apps |-> << [ id |-> 2, script |-> "s2",
                    routes |-> << [domain |-> <<"x">>, path_prefix |-> <<"/", "b">>] >> ] >>,
      instance_expiration_time_ms |-> 0,
      request_timeout_ms |-> 2,
      max_request_body_size_bytes |-> 2 ]

Docs == {DocTwoApps, DocOneApp}

\* runtime_cluster_append, the operator's floor set of addresses.
ClusterAppend == {2}

\* Host headers and paths of inbound requests.
Hosts == { <<"x", ":", "8">>, <<"z">> }
Paths == { <<"/">>, <<"/", "b">> }
BodySizes == 1..MaxBody

\* new_apps_config: the Vec<AppConfig> collected into a map by id (a later
\* entry of the same id replaces an earlier one).
RECURSIVE NewAppsConfig(_)
NewAppsConfig(appsVec) ==
    IF appsVec = <<>> THEN <<>>
    ELSE LET n == Len(appsVec)
             rest == NewAppsConfig(SubSeq(appsVec, 1, n - 1))
             last == appsVec[n]
         IN  [ k \in DOMAIN rest \cup {last.id} |->
                 IF k = last.id THEN last ELSE rest[k] ]

\* routing_table.entry(domain).or_insert(..).insert(prefix, id)
InsertRoute(table, route, id) ==
    LET sub == IF route.domain \in DOMAIN table THEN table[route.domain] ELSE <<>>
        sub2 == [ p \in DOMAIN sub \cup {route.path_prefix} |->
                    IF p = route.path_prefix THEN id ELSE sub[p] ]
    IN  [ d \in DOMAIN table \cup {route.domain} |->
            IF d = route.domain THEN sub2 ELSE table[d] ]

RECURSIVE InsertRoutes(_, _, _)
InsertRoutes(table, routes, id) ==
    IF routes = <<>> THEN table
    ELSE InsertRoutes(InsertRoute(table, Head(routes), id), Tail(routes), id)

\* The loop that rebuilds the routing table: apps in key order, each app's
\* routes in Vec order.
RECURSIVE BuildRoutes(_, _, _)
BuildRoutes(table, cfgMap, ids) ==
    IF ids = {} THEN table
    ELSE LET id == CHOOSE i \in ids : \A j \in ids : i =< j
         IN  BuildRoutes(InsertRoutes(table, cfgMap[id].routes, id),
                         cfgMap, ids \ {id})

RoutingTable(cfg) ==
    LET m == NewAppsConfig(cfg.apps) IN BuildRoutes(<<>>, m, DOMAIN m)

\* --------------------------------------------------------------- Router
\* A faulty variant of the scan: when the path starts with no key, the
\* last key scanned is taken.
RECURSIVE MatchRevCatchAll(_, _, _)
MatchRevCatchAll(sub, keys, path) ==
    IF keys = {} THEN NoId
    ELSE LET k == MaxStr(keys)
         IN  IF StartsWith(path, k) \/ keys = {k} THEN sub[k]
             ELSE MatchRevCatchAll(sub, keys \ {k}, path)

\* for (k, v) in submappings.iter().rev(): the first key, in descending
\* order, that the path starts with.
RECURSIVE MatchRev(_, _, _)
MatchRev(sub, keys, path) ==
    IF keys = {} THEN NoId
    ELSE LET k == MaxStr(keys)
         IN  IF StartsWith(path, k) THEN sub[k]
             ELSE MatchRev(sub, keys \ {k}, path)

\* The AppId a request resolves to, or NoId (NoRouteMapping).
ResolveRoute(table, host, path) ==
    IF host \notin DOMAIN table THEN NoId
    ELSE MatchRev(table[host], DOMAIN table[host], path)

\* ------------------------------------------------------------------ state
VARIABLES
    config,          \* Scheduler.config: the installed Config (ArcSwap)
    clients,         \* Scheduler.clients: RuntimeId -> RtState
    apps,            \* Scheduler.apps: AppId -> AppState
    route_mappings,  \* Scheduler.route_mappings: domain -> (prefix -> AppId)
    now,             \* Instant::now()
    appsReaders,     \* tasks holding a read guard of apps
    appsQueue,       \* tasks waiting for apps, in arrival order
    clientsReaders,  \* tasks holding a read guard of clients
    clientsQueue,    \* tasks waiting for clients, in arrival order
    pc,              \* where each task stands
    req,             \* handle_request's locals, per request task
    bg,              \* locals of populate_config / discover / query, per task
    tick             \* history: outcome of the refresh task's current tick,
                     \* the scripts it fetched, the apps it removed with
                     \* instances pooled

vars == << config, clients, apps, route_mappings, now,
           appsReaders, appsQueue, clientsReaders, clientsQueue,
           pc, req, bg, tick >>

\* ---------------------------------------------------------- ReadyInstance
\* A faulty variant of is_usable: no instance ever expires.
is_usableForever(inst, cfg, current) == TRUE

\* A faulty variant of is_usable: every pooled instance is thrown away.
is_usableNever(inst, cfg, current) == FALSE

\* ReadyInstance::is_usable at clock reading `current`.
is_usable(inst, cfg, current) ==
    IF current - inst.last_active > cfg.instance_expiration_time_ms
    THEN FALSE ELSE TRUE

\* ReadyInstance::update_last_active
update_last_active(inst, current) == [inst EXCEPT !.last_active = current]

\* A faulty variant of the loop: the instance returned stays in the queue.
PopUsableKeeps(queue, cfg, current) ==
    IF queue = <<>> THEN [found |-> FALSE, rest |-> <<>>]
    ELSE [found |-> TRUE, instance |-> Head(queue), rest |-> queue]

\* The while-let loop of get_instance: pop from the front until an instance
\* is usable; the instances popped before it are gone.
RECURSIVE PopUsable(_, _, _)
PopUsable(queue, cfg, current) ==
    IF queue = <<>> THEN [found |-> FALSE, rest |-> <<>>]
    ELSE IF is_usable(Head(queue), cfg, current)
         THEN [found |-> TRUE,
               instance |-> update_last_active(Head(queue), current),
               rest |-> Tail(queue)]
         ELSE PopUsable(Tail(queue), cfg, current)

\* A faulty variant of pool_instance: push_front.
pool_instanceFront(queue, inst) == <<inst>> \o queue

\* AppState::pool_instance: push_back.
pool_instance(queue, inst) == Append(queue, inst)

\* Iterator::min_by_key over the registry in key order: the element kept is
\* replaced only by one whose load is strictly less.
RECURSIVE MinFold(_, _, _)
MinFold(cl, keys, best) ==
    IF keys = {} THEN best
    ELSE LET r == CHOOSE x \in keys : \A y \in keys : x =< y
         IN  MinFold(cl, keys \ {r},
                     IF best = NoId \/ cl[r].load < cl[best].load THEN r ELSE best)

\* A faulty variant of the selection: the first runtime, whatever its load.
MinByKeyOnly(cl) ==
    IF DOMAIN cl = {} THEN NoId
    ELSE CHOOSE r \in DOMAIN cl : \A o \in DOMAIN cl : r =< o

\* clients.iter().min_by_key(|x| x.1.load): NoId for an empty registry.
MinByLoad(cl) == MinFold(cl, DOMAIN cl, NoId)

\* A faulty variant of the loop bound: one attempt more.
RetriesOneMore == 3 + 1

\* The number of attempts of the retry loop, for _ in 0..3usize.
Retries == 3

\* A faulty variant of the size test: a body of exactly the limit is refused.
BodyTooLargeAtLimit(len, cfg) == len >= cfg.max_request_body_size_bytes

\* Line 196: the test each chunk is put to; the lengths only grow, so one
\* chunk fails it exactly when the whole body does.
BodyTooLarge(len, cfg) == len > cfg.max_request_body_size_bytes

\* SchedError::build_response: the status of each error kind.
build_response(err) ==
    CASE err = "NoAvailableInstance" -> 503
      [] err = "NoRouteMapping" -> 502
      [] err = "RequestBodyTooLarge" -> 413
      [] err = "RequestFailedAfterRetries" -> 503

\* ------------------------------------------------------------ RwLock
\* The pcs at which a task waits for a write guard.
WriteWaits == {"remove_client", "pop_apps_write", "disc_write", "query_write"}

\* A read guard is granted unless a writer waits ahead in the queue.
CanRead(queue, t) ==
    \E i \in 1..Len(queue) :
        /\ queue[i] = t
        /\ \A j \in 1..(i - 1) : pc[queue[j]] \notin WriteWaits

\* A faulty variant of the write guard: granted only when no other task
\* waits for the lock.
CanWriteAlone(queue, readers, t) ==
    /\ queue = <<t>>
    /\ readers = {}

\* A faulty variant of the write guard: granted while readers remain.
CanWriteOverReaders(queue, readers, t) ==
    /\ queue # <<>>
    /\ Head(queue) = t

\* A write guard is granted to the head of the queue once no reader is left.
CanWrite(queue, readers, t) ==
    /\ queue # <<>>
    /\ Head(queue) = t
    /\ readers = {}

Leave(queue, t) == SelectSeq(queue, LAMBDA x : x # t)

\* ------------------------------------------------------------- Init
IdleReq ==
    [ host |-> <<>>, path |-> <<>>, body |-> 0, body_error |-> FALSE,
      appid |-> NoId, cfg_body |-> Unset, cfg |-> Unset,
      attempt |-> 0, instance |-> Unset, fresh |-> FALSE, target |-> NoId,
      res |-> None, result |-> None, log |-> <<>>, gets |-> 0,
      discarded |-> 0, quiet |-> TRUE ]

IdleBg ==
    [ unseen_appids |-> {}, unseen_apps |-> <<>>,
      new_clients |-> <<>>, to_drop |-> {}, todo |-> {},
      answers |-> <<>> ]

\* Scheduler::new
Init ==
    /\ config = DefaultConfig
    /\ clients = <<>>
    /\ apps = <<>>
    /\ route_mappings = <<>>
    /\ now = 0
    /\ appsReaders = {}
    /\ appsQueue = <<>>
    /\ clientsReaders = {}
    /\ clientsQueue = <<>>
    /\ pc = [t \in Tasks |-> "idle"]
    /\ req = [q \in Reqs |-> IdleReq]
    /\ bg = [t \in BgTasks |-> IdleBg]
    /\ tick = [result |-> None, scripts |-> {}, evicted |-> {}]

InFlight(q) == pc[q] \notin {"idle", "done"}

\* The pcs at which a request has a ReadyInstance in hand.
Holding == {"fetch", "fetched", "remove_client"}

\* History: a request runs quietly while no other request is in flight and
\* no background task writes shared state; `log` is the list of the fetches
\* of a quiet request, and is dropped when the request is disturbed.
Disturb(r) ==
    [q \in Reqs |->
        IF InFlight(q) THEN [r[q] EXCEPT !.quiet = FALSE, !.log = <<>>]
        ELSE r[q]]

\* The monotonic clock advances.
Tick ==
    /\ now < MaxTime
    /\ now' = now + 1
    /\ UNCHANGED << config, clients, apps, route_mappings,
                    appsReaders, appsQueue, clientsReaders, clientsQueue,
                    pc, req, bg, tick >>

\* ------------------------------------------------------- handle_request
\* A faulty variant of the removal: the map is left as it is.
RemoveKeyKeeps(f, k) == f

\* BTreeMap::remove
RemoveKey(f, k) == [x \in DOMAIN f \ {k} |-> f[x]]

\* Faulty variants of the match: one pools the instance on NoSuchWorker,
\* one goes on with the loop on every application error.
FetchArmPoolsLost(outcome) ==
    CASE outcome \in {"ok", "NoSuchWorker"} -> "pool"
      [] outcome = "transport" -> "drop_runtime"
      [] OTHER -> "break"

FetchArmRetriesAll(outcome) ==
    CASE outcome = "ok" -> "pool"
      [] outcome = "transport" -> "drop_runtime"
      [] OTHER -> "continue"

\* What the match on fetch's result does with each outcome: pool the
\* instance and return, drop the runtime and continue, continue, or break.
FetchArm(outcome) ==
    CASE outcome = "ok" -> "pool"
      [] outcome = "transport" -> "drop_runtime"
      [] outcome = "NoSuchWorker" -> "continue"
      [] OTHER -> "break"

\* handle_request returns: the apps read guard, if held, is dropped and the
\* locals are gone; the result stays for the caller.
Finish(q, r, res) ==
    /\ pc' = [pc EXCEPT ![q] = "done"]
    /\ req' = [r EXCEPT ![q] = [IdleReq EXCEPT !.result = res]]
    /\ appsReaders' = appsReaders \ {q}

\* `continue` in the retry loop: the next attempt, or the end of the loop.
Continue(q, r) ==
    LET r2 == [r EXCEPT ![q].attempt = @ + 1, ![q].instance = Unset,
                        ![q].target = NoId, ![q].fresh = FALSE,
                        ![q].res = None, ![q].discarded = 0]
    IN  IF r2[q].attempt >= Retries
        THEN Finish(q, r2, "RequestFailedAfterRetries")
        ELSE /\ pc' = [pc EXCEPT ![q] = "get_instance"]
             /\ req' = r2
             /\ UNCHANGED appsReaders

\* A request arrives, with its Host header and its path.
Arrive(q, hosts, paths) ==
    /\ pc[q] \in {"idle", "done"}
    /\ \E host \in hosts, path \in paths :
        req' = [Disturb(req) EXCEPT ![q] =
                  [IdleReq EXCEPT !.host = host, !.path = path,
                                  !.quiet = \A o \in Reqs \ {q} : ~InFlight(o)]]
    /\ pc' = [pc EXCEPT ![q] = "route"]
    /\ UNCHANGED << config, clients, apps, route_mappings, now,
                    appsReaders, appsQueue, clientsReaders, clientsQueue,
                    bg, tick >>

ReqArrive(q) == Arrive(q, Hosts, Paths)

\* Lines 160-180: the host is normalised and the route resolved under the
\* read guard of route_mappings.  What the body stream then delivers is
\* its total length `size`, and whether it ends in an error.
ReqRoute(q) ==
    /\ pc[q] = "route"
    /\ LET appid == ResolveRoute(route_mappings, StripPort(req[q].host),
                                 req[q].path)
       IN  IF appid = NoId
           THEN /\ pc' = [pc EXCEPT ![q] = "done"]
                /\ req' = [req EXCEPT ![q] =
                             [IdleReq EXCEPT !.result = "NoRouteMapping"]]
           ELSE /\ pc' = [pc EXCEPT ![q] = "body"]
                /\ \E size \in BodySizes, err \in BOOLEAN :
                     req' = [req EXCEPT ![q].appid = appid,
                                       ![q].host = <<>>, ![q].path = <<>>,
                                       ![q].body = size, ![q].body_error = err]
    /\ UNCHANGED << config, clients, apps, route_mappings, now,
                    appsReaders, appsQueue, clientsReaders, clientsQueue,
                    bg, tick >>

\* Lines 191-208: the Config is loaded and the body drained against its
\* max_request_body_size_bytes.  Line 217: apps.read() is awaited.
ReqBody(q) ==
    /\ pc[q] = "body"
    /\ IF req[q].body_error
       THEN /\ pc' = [pc EXCEPT ![q] = "done"]
            /\ req' = [req EXCEPT ![q] = [IdleReq EXCEPT !.result = "BodyError"]]
            /\ UNCHANGED appsQueue
       ELSE IF BodyTooLarge(req[q].body, config)
       THEN /\ pc' = [pc EXCEPT ![q] = "done"]
            /\ req' = [req EXCEPT ![q] =
                         [IdleReq EXCEPT !.result = "RequestBodyTooLarge"]]
            /\ UNCHANGED appsQueue
       ELSE /\ pc' = [pc EXCEPT ![q] = "apps_read"]
            /\ req' = [req EXCEPT ![q].cfg_body = config,
                                  ![q].body = 0]
            /\ appsQueue' = Append(appsQueue, q)
    /\ UNCHANGED << config, clients, apps, route_mappings, now,
                    appsReaders, clientsReaders, clientsQueue,
                    bg, tick >>

\* Lines 217-220: the read guard of apps is taken, the AppState looked up
\* and the Config loaded again for the retry loop.
ReqAppsRead(q) ==
    /\ pc[q] = "apps_read"
    /\ CanRead(appsQueue, q)
    /\ appsQueue' = Leave(appsQueue, q)
    /\ IF req[q].appid \notin DOMAIN apps
       THEN Finish(q, req, "NoRouteMapping")
       ELSE /\ pc' = [pc EXCEPT ![q] = "get_instance"]
            /\ req' = [req EXCEPT ![q].cfg = config]
            /\ appsReaders' = appsReaders \cup {q}
    /\ UNCHANGED << config, clients, apps, route_mappings, now,
                    clientsReaders, clientsQueue, bg, tick >>

\* Lines 112-122: get_instance under the ready_instances mutex; with no
\* usable instance left it awaits clients.read().
ReqGetInstance(q) ==
    /\ pc[q] = "get_instance"
    /\ LET a == req[q].appid
           queue == apps[a].ready_instances
           got == PopUsable(queue, req[q].cfg, now)
           gone == Len(queue) - Len(got.rest) - (IF got.found THEN 1 ELSE 0)
       IN  /\ apps' = [apps EXCEPT ![a].ready_instances = got.rest]
           /\ IF got.found
              THEN /\ pc' = [pc EXCEPT ![q] = "fetch"]
                   /\ req' = [req EXCEPT
                                ![q].gets = @ + 1,
                                ![q].instance = got.instance,
                                ![q].fresh = FALSE,
                                ![q].discarded = gone]
                   /\ UNCHANGED clientsQueue
              ELSE /\ pc' = [pc EXCEPT ![q] = "spawn_select"]
                   /\ req' = [req EXCEPT ![q].gets = @ + 1,
                                         ![q].discarded = gone]
                   /\ clientsQueue' = Append(clientsQueue, q)
    /\ UNCHANGED << config, clients, route_mappings, now,
                    appsReaders, appsQueue, clientsReaders, bg, tick >>

\* A faulty variant of the `?`: an error of get_instance is one more failed
\* attempt.
GetInstanceArmRetries(err) == "continue"

\* Line 224: app.get_instance(..).await? returns from handle_request with
\* whatever error get_instance ends in.
GetInstanceArm(err) == "return"

GetInstanceFails(q, err) ==
    IF GetInstanceArm(err) = "return"
    THEN Finish(q, req, err)
    ELSE Continue(q, req)

\* Lines 122-138: under the read guard of clients the least-loaded runtime
\* is picked and spawn_worker is sent to it; an empty registry is
\* NoAvailableInstance.
ReqSpawnSelect(q) ==
    /\ pc[q] = "spawn_select"
    /\ CanRead(clientsQueue, q)
    /\ clientsQueue' = Leave(clientsQueue, q)
    /\ IF DOMAIN clients = {}
       THEN /\ GetInstanceFails(q, "NoAvailableInstance")
            /\ UNCHANGED clientsReaders
       ELSE /\ pc' = [pc EXCEPT ![q] = "spawn_rpc"]
            /\ req' = [req EXCEPT ![q].target = MinByLoad(clients)]
            /\ clientsReaders' = clientsReaders \cup {q}
            /\ UNCHANGED appsReaders
    /\ UNCHANGED << config, clients, apps, route_mappings, now,
                    appsQueue, bg, tick >>

\* The handles of the workers the scheduler holds: pooled, or in the hands
\* of a request.
LiveHandles ==
    UNION { { apps[a].ready_instances[i].handle :
                i \in 1..Len(apps[a].ready_instances) } : a \in DOMAIN apps }
    \cup { req[q].instance.handle : q \in {x \in Reqs : pc[x] \in Holding} }

\* The WorkerHandle spawn_worker answers with.  The runtime names a new
\* worker by a handle no live worker has; the handles of workers the
\* scheduler has dropped are used again, which keeps the handles finite.
FreshHandle ==
    CHOOSE h \in 1..(Cardinality(Reqs) * Cardinality(AppIds)) :
        /\ h \notin LiveHandles
        /\ \A g \in 1..(h - 1) : g \in LiveHandles

\* Lines 133-145: spawn_worker returns.  Either `?` ends handle_request
\* with the RPC's error; success makes the ReadyInstance.
ReqSpawnReturn(q) ==
    /\ pc[q] = "spawn_rpc"
    /\ clientsReaders' = clientsReaders \ {q}
    /\ \E outcome \in {"ok", "RpcError", "GenericError"} :
        LET rt == req[q].target IN
        IF outcome = "ok"
        THEN /\ pc' = [pc EXCEPT ![q] = "fetch"]
             /\ req' = [req EXCEPT
                          ![q].fresh = TRUE,
                          ![q].instance =
                              [ rtid |-> rt, last_active |-> now,
                                handle |-> FreshHandle,
                                client |-> clients[rt].client,
                                app |-> req[q].appid ]]
             /\ UNCHANGED appsReaders
        ELSE GetInstanceFails(q, outcome)
    /\ UNCHANGED << config, clients, apps, route_mappings, now,
                    appsQueue, clientsQueue, bg, tick >>

\* Lines 230-231: fetch returns: a transport error, or the runtime's
\* answer (the response, NoSuchWorker or another GenericError).
FetchOutcomes == {"ok", "transport", "NoSuchWorker", "GenericError"}

ReqFetchReturn(q) ==
    /\ pc[q] = "fetch"
    /\ \E outcome \in FetchOutcomes :
        req' = [req EXCEPT
                  ![q].res = outcome,
                  ![q].log =
                      IF req[q].quiet
                      THEN Append(@, [ rtid |-> req[q].instance.rtid,
                                       fresh |-> req[q].fresh, res |-> outcome ])
                      ELSE @]
    /\ pc' = [pc EXCEPT ![q] = "fetched"]
    /\ UNCHANGED << config, clients, apps, route_mappings, now,
                    appsReaders, appsQueue, clientsReaders, clientsQueue,
                    bg, tick >>

\* Lines 232-284: the result is matched.  Success pools the instance and
\* returns; a transport error awaits clients.write(); NoSuchWorker goes on
\* with the loop; any other error leaves it.
ReqFetchMatch(q) ==
    /\ pc[q] = "fetched"
    /\ LET inst == req[q].instance
           a == req[q].appid
           arm == FetchArm(req[q].res)
       IN  CASE arm = "pool" ->
                   /\ apps' = [apps EXCEPT ![a].ready_instances =
                                   pool_instance(@, inst)]
                   /\ Finish(q, req, "ok")
                   /\ UNCHANGED clientsQueue
              [] arm = "drop_runtime" ->
                   /\ pc' = [pc EXCEPT ![q] = "remove_client"]
                   /\ clientsQueue' = Append(clientsQueue, q)
                   /\ UNCHANGED << apps, appsReaders, req >>
              [] arm = "continue" ->
                   /\ Continue(q, req)
                   /\ UNCHANGED << apps, clientsQueue >>
              [] OTHER ->
                   /\ Finish(q, req, "RequestFailedAfterRetries")
                   /\ UNCHANGED << apps, clientsQueue >>
    /\ UNCHANGED << config, clients, route_mappings, now,
                    appsQueue, clientsReaders, bg, tick >>

\* Line 236: under the write guard of clients the instance's runtime is
\* removed; then `continue`.
ReqRemoveClient(q) ==
    /\ pc[q] = "remove_client"
    /\ CanWrite(clientsQueue, clientsReaders, q)
    /\ clientsQueue' = Leave(clientsQueue, q)
    /\ clients' = RemoveKey(clients, req[q].instance.rtid)
    /\ Continue(q, req)
    /\ UNCHANGED << config, apps, route_mappings, now,
                    appsQueue, clientsReaders, bg, tick >>

\* The steps of a request that has arrived.
ReqSteps(q) ==
    \/ ReqRoute(q)
    \/ ReqBody(q)
    \/ ReqAppsRead(q)
    \/ ReqGetInstance(q)
    \/ ReqSpawnSelect(q)
    \/ ReqSpawnReturn(q)
    \/ ReqFetchReturn(q)
    \/ ReqFetchMatch(q)
    \/ ReqRemoveClient(q)

HandleRequest(q) == ReqArrive(q) \/ ReqSteps(q)

\* -------------------------------------------------- check_config_update
\* config.runtime_cluster.push(addr) for each appended address.
WithAppend(doc) == [doc EXCEPT !.runtime_cluster = @ \cup ClusterAppend]

\* A faulty variant of the comparison: every fetched Config counts as new.
DiffersAlways(new, installed) == TRUE

\* Line 298: config != **self.config.load()
Differs(new, installed) == new # installed

\* The refresh task's tick is over.
TickDone(t) == IF t = REFRESH THEN [tick EXCEPT !.result = "ok"] ELSE tick

\* Lines 288-303: the document is fetched and parsed, the floor set
\* appended; a Config that differs from the installed one is stored and
\* populate_config entered (it loads the Config and awaits apps.read()).
CfgFetch ==
    /\ pc[REFRESH] = "idle"
    /\ \/ /\ tick' = [result |-> "FetchConfig", scripts |-> {}, evicted |-> {}]
          /\ UNCHANGED << config, pc, appsQueue, req >>
       \/ \E doc \in Docs :
            IF Differs(WithAppend(doc), config)
            THEN /\ config' = WithAppend(doc)
                 /\ pc' = [pc EXCEPT ![REFRESH] = "pop_apps_read"]
                 /\ appsQueue' = Append(appsQueue, REFRESH)
                 /\ tick' = [result |-> "running", scripts |-> {}, evicted |-> {}]
                 /\ req' = Disturb(req)
            ELSE /\ tick' = [result |-> "ok", scripts |-> {}, evicted |-> {}]
                 /\ UNCHANGED << config, pc, appsQueue, req >>
    /\ UNCHANGED << clients, apps, route_mappings, now,
                    appsReaders, clientsReaders, clientsQueue, bg >>

\* ------------------------------------------------------ populate_config
\* Lines 375-386: under the read guard of apps, the ids of the new Config
\* that have no AppState.
UnseenAppIds(cfg, live) == DOMAIN NewAppsConfig(cfg.apps) \ DOMAIN live

PopAppsRead ==
    /\ pc[REFRESH] = "pop_apps_read"
    /\ CanRead(appsQueue, REFRESH)
    /\ appsQueue' = Leave(appsQueue, REFRESH)
    /\ bg' = [bg EXCEPT ![REFRESH].unseen_appids = UnseenAppIds(config, apps)]
    /\ pc' = [pc EXCEPT ![REFRESH] = "pop_scripts"]
    /\ UNCHANGED << config, clients, apps, route_mappings, now,
                    appsReaders, clientsReaders, clientsQueue, req, tick >>

\* Lines 393-431: the scripts of the unseen apps are fetched; `fetched` are
\* the apps whose fetch succeeds, the others are skipped.  Line 434:
\* apps.write() is awaited.
PopScripts ==
    /\ pc[REFRESH] = "pop_scripts"
    /\ \E fetched \in SUBSET bg[REFRESH].unseen_appids :
        LET m == NewAppsConfig(config.apps)
        IN  bg' = [bg EXCEPT
                     ![REFRESH].unseen_apps =
                        [a \in fetched |->
                            [script |-> m[a].script, ready_instances |-> <<>>]]]
    /\ tick' = [tick EXCEPT !.scripts = bg[REFRESH].unseen_appids]
    /\ appsQueue' = Append(appsQueue, REFRESH)
    /\ pc' = [pc EXCEPT ![REFRESH] = "pop_apps_write"]
    /\ UNCHANGED << config, clients, apps, route_mappings, now,
                    appsReaders, clientsReaders, clientsQueue, req >>

\* Lines 436-450: the new AppStates are inserted, then every AppState
\* whose id the new Config lacks is removed.
UpdateApps(live, unseen_apps, cfg) ==
    LET added == [a \in DOMAIN live \cup DOMAIN unseen_apps |->
                    IF a \in DOMAIN unseen_apps THEN unseen_apps[a] ELSE live[a]]
        keep == DOMAIN added \cap DOMAIN NewAppsConfig(cfg.apps)
    IN  [a \in keep |-> added[a]]

PopAppsWrite ==
    /\ pc[REFRESH] = "pop_apps_write"
    /\ CanWrite(appsQueue, appsReaders, REFRESH)
    /\ appsQueue' = Leave(appsQueue, REFRESH)
    /\ apps' = UpdateApps(apps, bg[REFRESH].unseen_apps, config)
    /\ bg' = [bg EXCEPT ![REFRESH].unseen_appids = {},
                        ![REFRESH].unseen_apps = <<>>]
    /\ pc' = [pc EXCEPT ![REFRESH] = "pop_routes"]
    /\ tick' = [tick EXCEPT !.evicted =
                  { a \in DOMAIN apps \ DOMAIN apps' :
                      apps[a].ready_instances # <<>> }]
    /\ req' = Disturb(req)
    /\ UNCHANGED << config, clients, route_mappings, now,
                    appsReaders, clientsReaders, clientsQueue >>

\* Lines 455-464: the routing table is rebuilt from the new Config and
\* installed under the write guard of route_mappings.
PopRoutes ==
    /\ pc[REFRESH] = "pop_routes"
    /\ route_mappings' = RoutingTable(config)
    /\ pc' = [pc EXCEPT ![REFRESH] = "disc_connect"]
    /\ req' = Disturb(req)
    /\ UNCHANGED << config, clients, apps, now,
                    appsReaders, appsQueue, clientsReaders, clientsQueue,
                    bg, tick >>

\* ---------------------------------------------------- discover_runtimes
\* The Vec of (id, client) of the addresses that answered, in the order of
\* the cluster set.
RECURSIVE NewClients(_)
NewClients(up) ==
    IF up = {} THEN <<>>
    ELSE LET a == CHOOSE x \in up : \A y \in up : x =< y
         IN  <<[id |-> AddrRt[a], client |-> a]>> \o NewClients(up \ {a})

\* A faulty variant of the insertion: a registered id is inserted again.
RECURSIVE InsertNewOverwrites(_, _)
InsertNewOverwrites(cl, items) ==
    IF items = <<>> THEN cl
    ELSE LET it == Head(items)
         IN  InsertNewOverwrites([r \in DOMAIN cl \cup {it.id} |->
                                    IF r = it.id
                                    THEN [client |-> it.client, load |-> 0]
                                    ELSE cl[r]],
                                 Tail(items))

\* Lines 357-367: each discovered runtime whose id is not registered is
\* inserted with load 0.
RECURSIVE InsertNew(_, _)
InsertNew(cl, items) ==
    IF items = <<>> THEN cl
    ELSE LET it == Head(items)
         IN  IF it.id \in DOMAIN cl
             THEN InsertNew(cl, Tail(items))
             ELSE InsertNew([r \in DOMAIN cl \cup {it.id} |->
                                IF r = it.id
                                THEN [client |-> it.client, load |-> 0]
                                ELSE cl[r]],
                            Tail(items))

DiscEntry(t) == IF t = REFRESH THEN "disc_connect" ELSE "idle"

\* Lines 334-356: the Config is loaded, every address of the cluster is
\* connected to and asked its id; `up` are the addresses that answer.
\* Then clients.write() is awaited.
DiscConnect(t) ==
    /\ t \in {REFRESH, DISCOVER}
    /\ pc[t] = DiscEntry(t)
    /\ \E up \in SUBSET config.runtime_cluster :
        bg' = [bg EXCEPT ![t].new_clients = NewClients(up)]
    /\ clientsQueue' = Append(clientsQueue, t)
    /\ pc' = [pc EXCEPT ![t] = "disc_write"]
    /\ UNCHANGED << config, clients, apps, route_mappings, now,
                    appsReaders, appsQueue, clientsReaders, req, tick >>

\* Lines 356-368; populate_config then enters query_runtimes, which awaits
\* clients.read().
DiscWrite(t) ==
    /\ t \in {REFRESH, DISCOVER}
    /\ pc[t] = "disc_write"
    /\ CanWrite(clientsQueue, clientsReaders, t)
    /\ clients' = InsertNew(clients, bg[t].new_clients)
    /\ bg' = [bg EXCEPT ![t].new_clients = <<>>]
    /\ IF t = REFRESH
       THEN /\ clientsQueue' = Append(Leave(clientsQueue, t), t)
            /\ pc' = [pc EXCEPT ![t] = "query_read"]
       ELSE /\ clientsQueue' = Leave(clientsQueue, t)
            /\ pc' = [pc EXCEPT ![t] = "idle"]
    /\ req' = Disturb(req)
    /\ UNCHANGED << config, apps, route_mappings, now,
                    appsReaders, appsQueue, clientsReaders, tick >>

\* ------------------------------------------------------- query_runtimes
\* The probe task calls query_runtimes, which awaits clients.read().
ProbeStart ==
    /\ pc[PROBE] = "idle"
    /\ clientsQueue' = Append(clientsQueue, PROBE)
    /\ pc' = [pc EXCEPT ![PROBE] = "query_read"]
    /\ UNCHANGED << config, clients, apps, route_mappings, now,
                    appsReaders, appsQueue, clientsReaders, req, bg, tick >>

\* Lines 308-310: the read guard of clients is taken and the scan begins;
\* an empty registry ends query_runtimes at once.
QueryRead(t) ==
    /\ t \in {REFRESH, PROBE}
    /\ pc[t] = "query_read"
    /\ CanRead(clientsQueue, t)
    /\ clientsQueue' = Leave(clientsQueue, t)
    /\ IF DOMAIN clients = {}
       THEN /\ pc' = [pc EXCEPT ![t] = "idle"]
            /\ tick' = TickDone(t)
            /\ bg' = [bg EXCEPT ![t].answers = <<>>]
            /\ UNCHANGED clientsReaders
       ELSE /\ pc' = [pc EXCEPT ![t] = "query_scan"]
            /\ clientsReaders' = clientsReaders \cup {t}
            /\ bg' = [bg EXCEPT ![t].todo = DOMAIN clients, ![t].to_drop = {},
                                 ![t].answers = <<>>]
            /\ UNCHANGED tick
    /\ UNCHANGED << config, clients, apps, route_mappings, now,
                    appsReaders, appsQueue, req >>

\* What load() can return: Ok(Ok(load)), or anything else.
LoadAnswers ==
    {[ok |-> TRUE, load |-> l] : l \in Loads} \cup {[ok |-> FALSE, load |-> 0]}

\* A faulty variant of the scan: a runtime that does not answer is not
\* marked.
ProbeOneForgets(cl, drop, rt, answer) ==
    IF answer.ok
    THEN [clients |-> [cl EXCEPT ![rt].load = answer.load], to_drop |-> drop]
    ELSE [clients |-> cl, to_drop |-> drop]

\* Lines 311-318: what the scan does with one runtime's answer to load().
ProbeOne(cl, drop, rt, answer) ==
    IF answer.ok
    THEN [clients |-> [cl EXCEPT ![rt].load = answer.load], to_drop |-> drop]
    ELSE [clients |-> cl, to_drop |-> drop \cup {rt}]

\* Lines 310-324: load() of the next runtime in key order returns; after
\* the last one the read guard is dropped and, with runtimes to drop,
\* clients.write() awaited.
QueryLoad(t) ==
    /\ t \in {REFRESH, PROBE}
    /\ pc[t] = "query_scan"
    /\ \E answer \in LoadAnswers :
        LET rt == CHOOSE r \in bg[t].todo : \A o \in bg[t].todo : r =< o
            one == ProbeOne(clients, bg[t].to_drop, rt, answer)
            left == bg[t].todo \ {rt}
            heard == IF t = PROBE
                     THEN [r \in DOMAIN bg[t].answers \cup {rt} |->
                             IF r = rt THEN answer ELSE bg[t].answers[r]]
                     ELSE bg[t].answers
        IN  /\ clients' = one.clients
            /\ IF left # {}
               THEN /\ bg' = [bg EXCEPT ![t].todo = left,
                                        ![t].to_drop = one.to_drop,
                                        ![t].answers = heard]
                    /\ UNCHANGED << pc, clientsReaders, clientsQueue, tick >>
               ELSE /\ clientsReaders' = clientsReaders \ {t}
                    /\ IF one.to_drop # {}
                       THEN /\ bg' = [bg EXCEPT ![t].todo = {},
                                                ![t].to_drop = one.to_drop,
                                                ![t].answers = heard]
                            /\ clientsQueue' = Append(clientsQueue, t)
                            /\ pc' = [pc EXCEPT ![t] = "query_write"]
                            /\ UNCHANGED tick
                       ELSE /\ bg' = [bg EXCEPT ![t].todo = {}, ![t].to_drop = {},
                                                ![t].answers = heard]
                            /\ pc' = [pc EXCEPT ![t] = "idle"]
                            /\ tick' = TickDone(t)
                            /\ UNCHANGED clientsQueue
    /\ req' = Disturb(req)
    /\ UNCHANGED << config, apps, route_mappings, now,
                    appsReaders, appsQueue >>

\* Lines 323-329: the runtimes that did not answer are removed.
DropAll(cl, drop) == [r \in DOMAIN cl \ drop |-> cl[r]]

QueryWrite(t) ==
    /\ t \in {REFRESH, PROBE}
    /\ pc[t] = "query_write"
    /\ CanWrite(clientsQueue, clientsReaders, t)
    /\ clientsQueue' = Leave(clientsQueue, t)
    /\ clients' = DropAll(clients, bg[t].to_drop)
    /\ bg' = [bg EXCEPT ![t].to_drop = {}]
    /\ pc' = [pc EXCEPT ![t] = "idle"]
    /\ tick' = TickDone(t)
    /\ req' = Disturb(req)
    /\ UNCHANGED << config, apps, route_mappings, now,
                    appsReaders, appsQueue, clientsReaders >>

\* ------------------------------------------------------------ the system
Refresh ==
    \/ CfgFetch
    \/ PopAppsRead
    \/ PopScripts
    \/ PopAppsWrite
    \/ PopRoutes

Discover == \E t \in {REFRESH, DISCOVER} : DiscConnect(t) \/ DiscWrite(t)

Query == \E t \in {REFRESH, PROBE} : QueryRead(t) \/ QueryLoad(t) \/ QueryWrite(t)

Next ==
    \/ Tick
    \/ \E q \in Reqs : HandleRequest(q)
    \/ Refresh
    \/ Discover
    \/ ProbeStart
    \/ Query

Spec == Init /\ [][Next]_vars

\* ---------------------------------------------------- parts of the system
\* The AppStates a reconciliation makes from a document whose scripts are
\* all fetched.
FreshApps(doc) ==
    LET m == NewAppsConfig(doc.apps)
    IN  UpdateApps(<<>>, [a \in DOMAIN m |->
                           [script |-> m[a].script, ready_instances |-> <<>>]],
                   doc)

\* The scheduler after a refresh has installed document `doc` and left the
\* registry `cl`, every task idle.
Installed(doc, cl) ==
    /\ config = WithAppend(doc)
    /\ apps = FreshApps(doc)
    /\ route_mappings = RoutingTable(doc)
    /\ clients = cl
    /\ now = 0
    /\ appsReaders = {}
    /\ appsQueue = <<>>
    /\ clientsReaders = {}
    /\ clientsQueue = <<>>
    /\ pc = [t \in Tasks |-> "idle"]
    /\ req = [q \in Reqs |-> IdleReq]
    /\ bg = [t \in BgTasks |-> IdleBg]
    /\ tick = [result |-> "ok", scripts |-> {}, evicted |-> {}]

\* The registry after discover_runtimes has reached every address of the
\* document's cluster.
Discovered(doc) == InsertNew(<<>>, NewClients(WithAppend(doc).runtime_cluster))

\* The retry loop against a changing registry: one request handler and the
\* probe task, the configuration staying as the first refresh installed it.
InitRetry == \E doc \in Docs : Installed(doc, Discovered(doc))

NextRetry ==
    \/ HandleRequest("q1")
    \/ ProbeStart
    \/ QueryRead(PROBE)
    \/ QueryLoad(PROBE)
    \/ QueryWrite(PROBE)

SpecRetry == InitRetry /\ [][NextRetry]_vars

\* The registry under all its writers: the probe task, the discover task
\* and one request handler.
NextRegistry ==
    \/ HandleRequest("q1")
    \/ ProbeStart
    \/ QueryRead(PROBE)
    \/ QueryLoad(PROBE)
    \/ QueryWrite(PROBE)
    \/ DiscConnect(DISCOVER)
    \/ DiscWrite(DISCOVER)

SpecRegistry == InitRetry /\ [][NextRegistry]_vars

\* Route resolution over many route tables: the documents that bind each
\* of two apps to one prefix on one domain, every task idle after the
\* refresh that installed one of them, and a request with any of the
\* paths; the request is followed up to the resolution of its route.
RoutePrefixes ==
    { <<"/">>, <<"/", "a">>, <<"/", "a", "/", "b">>, <<"/", "a", "b">>,
      <<"/", "b">> }

RouteDomains == { <<"x">>, <<"z">> }

RoutePaths ==
    { <<"/">>, <<"/", "a">>, <<"/", "a", "/", "b", "/", "c">>,
      <<"/", "a", "b">>, <<"/", "b">>, <<"/", "c">> }

RouteDocs ==
    { [ runtime_cluster |-> {1},
        apps |-> << [ id |-> 1, script |-> "s1",
                      routes |-> << [domain |-> d1, path_prefix |-> p1] >> ],
                    [ id |-> 2, script |-> "s2",
                      routes |-> << [domain |-> d2, path_prefix |-> p2] >> ] >>,
        instance_expiration_time_ms |-> 1,
        request_timeout_ms |-> 1,
        max_request_body_size_bytes |-> 1 ] :
      d1 \in RouteDomains, d2 \in RouteDomains,
      p1 \in RoutePrefixes, p2 \in RoutePrefixes }

InitRoute == \E doc \in RouteDocs : Installed(doc, Discovered(doc))

NextRoute ==
    \/ Arrive("q1", Hosts, RoutePaths)
    \/ ReqRoute("q1")

SpecRoute == InitRoute /\ [][NextRoute]_vars

\* Every operation against every other, each run to its end: one request
\* for the first app, the refresh task until it has installed the second
\* document (which removes that app), the probe task for one run over a
\* registry with runtimes, and the discover task as long as a runtime of
\* the cluster is not registered.  A task that has started takes its next
\* step whenever that step stays possible: tokio polls every task that is
\* ready, and every RPC and HTTP fetch returns.
RefreshSteps ==
    \/ PopAppsRead
    \/ PopScripts
    \/ PopAppsWrite
    \/ PopRoutes
    \/ DiscConnect(REFRESH)
    \/ DiscWrite(REFRESH)
    \/ QueryRead(REFRESH)
    \/ QueryLoad(REFRESH)
    \/ QueryWrite(REFRESH)

ProbeSteps == QueryRead(PROBE) \/ QueryLoad(PROBE) \/ QueryWrite(PROBE)

NextLive ==
    \/ pc["q1"] = "idle" /\ Arrive("q1", {<<"x">>}, {<<"/">>})
    \/ ReqSteps("q1")
    \/ config # WithAppend(DocOneApp) /\ CfgFetch
    \/ RefreshSteps
    \/ bg[PROBE].answers = <<>> /\ ProbeStart
    \/ ProbeSteps
    \/ /\ \E a \in config.runtime_cluster : AddrRt[a] \notin DOMAIN clients
       /\ DiscConnect(DISCOVER)
    \/ DiscWrite(DISCOVER)

InitLive == Installed(DocTwoApps, Discovered(DocTwoApps))

SpecLive ==
    /\ InitLive
    /\ [][NextLive]_vars
    /\ WF_<<pc, bg>>(ReqSteps("q1"))
    /\ WF_<<pc, bg>>(RefreshSteps)
    /\ WF_<<pc, bg>>(ProbeSteps)
    /\ WF_<<pc, bg>>(DiscWrite(DISCOVER))

\* The instance pool under concurrent requests and a running clock: both
\* request handlers, one app on two runtimes, instances expiring as soon as
\* the clock moves.
InitPool == Installed(DocOneApp, Discovered(DocOneApp))

NextPool ==
    \/ Tick
    \/ \E q \in Reqs : HandleRequest(q)

SpecPool == InitPool /\ [][NextPool]_vars

\* Two apps sharing one runtime under concurrent requests.
InitShare == Installed(DocTwoApps, Discovered(DocTwoApps))

NextShare == \E q \in Reqs : HandleRequest(q)

SpecShare == InitShare /\ [][NextShare]_vars

\* Reconciliation against request handling: the refresh task from
\* Scheduler::new on, and one request handler.
NextRecon ==
    \/ Refresh
    \/ DiscConnect(REFRESH)
    \/ DiscWrite(REFRESH)
    \/ QueryRead(REFRESH)
    \/ QueryLoad(REFRESH)
    \/ QueryWrite(REFRESH)
    \/ HandleRequest("q1")

SpecRecon == Init /\ [][NextRecon]_vars

\* ------------------------------------------------------------ properties
\* The (rtid, handle) pairs of one ready queue, and of all of them.
PairsOf(queue) ==
    { <<queue[i].rtid, queue[i].handle>> : i \in 1..Len(queue) }

Pooled(ap) == UNION { PairsOf(ap[a].ready_instances) : a \in DOMAIN ap }

\* The (rtid, handle) pair of the instance a request has in hand.
InHand(q) == <<req[q].instance.rtid, req[q].instance.handle>>

\* The request's own step.
Steps(q) == pc'[q] # pc[q]

\* The errors of fetch after which the loop goes on.
RetryKinds == {"transport", "NoSuchWorker"}

\* The run of scenario S3: the first attempt spawned on runtime 1 and died
\* at transport level, the second spawned on runtime 2 and was answered.
LogS3 ==
    << [rtid |-> 1, fresh |-> TRUE, res |-> "transport"],
       [rtid |-> 2, fresh |-> TRUE, res |-> "ok"] >>

\* C1: a transport error of fetch on an instance of runtime R sends the
\* request to clients.write(); when that step is over R is out of the
\* registry and the instance is in no ready queue, and only then does the
\* next attempt's get_instance (or the end of the loop) follow.  In the run
\* of S3, undisturbed, the request ends in success and the registry is {2}.
TransportErrorDropsRuntime ==
    [][\A q \in Reqs :
        /\ (pc[q] = "fetched" /\ req[q].res = "transport" /\ Steps(q))
              => /\ pc'[q] = "remove_client"
                 /\ apps' = apps
                 /\ req'[q].gets = req[q].gets
        /\ (pc[q] = "remove_client" /\ Steps(q))
              => /\ req[q].res = "transport"
                 /\ req[q].instance.rtid \notin DOMAIN clients'
                 /\ InHand(q) \notin Pooled(apps')
                 /\ pc'[q] \in {"get_instance", "done"}
        /\ (pc[q] = "fetched" /\ req[q].log = LogS3 /\ Steps(q))
              => /\ pc'[q] = "done"
                 /\ req'[q].result = "ok"
                 /\ DOMAIN clients' = {2}
    ]_vars

\* Scenario S3 at its last fetch: runtime 1 is gone, runtime 2 (load 1) has
\* answered.
WitnessS3 ==
    \E q \in Reqs :
        /\ pc[q] = "fetched"
        /\ req[q].quiet
        /\ req[q].log = LogS3
        /\ DOMAIN clients = {2}
        /\ clients[2].load = 1

\* C2: a request runs get_instance at most 3 times and fetch at most once
\* per get_instance; after a third fetch that ends in a transport error or
\* NoSuchWorker the request only drops the runtime and returns
\* RequestFailedAfterRetries.
AtMostThreeAttempts ==
    /\ [](\A q \in Reqs :
            /\ req[q].gets =< 3
            /\ req[q].gets =< req[q].attempt + 1
            /\ Len(req[q].log) =< req[q].gets)
    /\ [][\A q \in Reqs :
            /\ (pc[q] = "fetch" /\ Steps(q))
                  => /\ req[q].gets = req[q].attempt + 1
                     /\ pc'[q] = "fetched"
                     /\ req'[q].gets = req[q].gets
            /\ (/\ pc[q] \in {"fetched", "remove_client"}
                /\ req[q].gets = 3
                /\ req[q].res \in RetryKinds
                /\ Steps(q))
                  => \/ /\ pc[q] = "fetched"
                        /\ pc'[q] = "remove_client"
                        /\ req'[q].gets = 3
                     \/ /\ pc'[q] = "done"
                        /\ req'[q].result = "RequestFailedAfterRetries"
       ]_vars

\* The third fetch of a request has failed like the two before it.
WitnessThreeFailures ==
    \E q \in Reqs :
        /\ pc[q] = "fetched"
        /\ req[q].gets = 3
        /\ Len(req[q].log) = 3
        /\ \A i \in 1..3 : req[q].log[i].res \in RetryKinds

\* C3: on NoSuchWorker the instance is not pooled, the registry stays as
\* it is, and the loop goes on to the next get_instance (or ends after the
\* third attempt).  When a pooled instance answers NoSuchWorker and the
\* spawn of the retry succeeds, undisturbed, the app's ready queue holds
\* exactly 1 instance afterwards.
NoSuchWorkerContinues ==
    [][\A q \in Reqs :
        /\ (pc[q] = "fetched" /\ req[q].res = "NoSuchWorker" /\ Steps(q))
              => /\ apps' = apps
                 /\ clients' = clients
                 /\ InHand(q) \notin Pooled(apps')
                 /\ IF req[q].attempt < 2
                    THEN pc'[q] = "get_instance"
                    ELSE /\ pc'[q] = "done"
                         /\ req'[q].result = "RequestFailedAfterRetries"
        /\ (/\ pc[q] = "fetched"
            /\ Len(req[q].log) = 2
            /\ req[q].log[1].res = "NoSuchWorker"
            /\ ~req[q].log[1].fresh
            /\ req[q].log[2].res = "ok"
            /\ req[q].log[2].fresh
            /\ Steps(q))
              => /\ req'[q].result = "ok"
                 /\ Len(apps'[req[q].appid].ready_instances) = 1
    ]_vars

\* Scenario S4 at its last fetch: the pooled instance answered
\* NoSuchWorker, the freshly spawned one has answered the request.
WitnessS4 ==
    \E q \in Reqs :
        /\ pc[q] = "fetched"
        /\ req[q].quiet
        /\ Len(req[q].log) = 2
        /\ req[q].log[1].res = "NoSuchWorker"
        /\ ~req[q].log[1].fresh
        /\ req[q].log[2].res = "ok"
        /\ req[q].log[2].fresh

\* C4: on an application error other than NoSuchWorker the request returns
\* RequestFailedAfterRetries at once, whatever attempts remain: nothing is
\* pooled, no get_instance or fetch follows, the registry is untouched.
OtherErrorBreaks ==
    [][\A q \in Reqs :
        (/\ pc[q] = "fetched"
         /\ req[q].res \notin {"ok", "transport", "NoSuchWorker"}
         /\ Steps(q))
          => /\ pc'[q] = "done"
             /\ req'[q].result = "RequestFailedAfterRetries"
             /\ apps' = apps
             /\ clients' = clients
             /\ clientsQueue' = clientsQueue
    ]_vars

\* The first fetch of a request has returned another application error.
WitnessOtherError ==
    \E q \in Reqs :
        /\ pc[q] = "fetched"
        /\ req[q].attempt = 0
        /\ req[q].res = "GenericError"

\* The age of a pooled instance exceeds the expiration time of the Config
\* the request works with.
Expired(inst, q) ==
    now - inst.last_active > req[q].cfg.instance_expiration_time_ms

\* The positions of the ready queue of q's app that hold an instance that
\* has not expired.
Alive(q) ==
    LET queue == apps[req[q].appid].ready_instances
    IN  { i \in 1..Len(queue) : ~Expired(queue[i], q) }

\* The least element of a non-empty set of positions.
First(S) == CHOOSE i \in S : \A j \in S : i =< j

\* C5: get_instance never returns a pooled instance whose age exceeds the
\* expiration time; the expired instances met before the one returned, or
\* all of them when none survives, leave the queue and no queue ever holds
\* them again; with no survivor the request goes to the registry, where it
\* spawns a worker or fails with NoAvailableInstance.
NeverReturnsExpired ==
    [][\A q \in Reqs :
        /\ (pc[q] = "get_instance" /\ Steps(q))
              => LET queue == apps[req[q].appid].ready_instances
                     queue2 == apps'[req[q].appid].ready_instances
                 IN  IF Alive(q) = {}
                     THEN /\ pc'[q] = "spawn_select"
                          /\ queue2 = <<>>
                          /\ req'[q].instance = Unset
                     ELSE /\ pc'[q] = "fetch"
                          /\ \E i \in Alive(q) :
                               /\ req'[q].instance.handle = queue[i].handle
                               /\ now - queue[i].last_active
                                     =< req[q].cfg.instance_expiration_time_ms
                               /\ PairsOf(queue2) \cap
                                     PairsOf(SubSeq(queue, 1, i)) = {}
        /\ (pc[q] = "spawn_select" /\ Steps(q))
              => \/ pc'[q] = "spawn_rpc"
                 \/ /\ pc'[q] = "done"
                    /\ req'[q].result = "NoAvailableInstance"
    ]_vars

\* get_instance has thrown an expired instance away and found no other.
WitnessExpiredDiscarded ==
    \E q \in Reqs :
        /\ pc[q] = "spawn_select"
        /\ req[q].discarded > 0
        /\ apps[req[q].appid].ready_instances = <<>>

\* C6: pool_instance puts the instance behind everything the queue holds;
\* get_instance returns the instance nearest the front that has not
\* expired, stamped with the current time, leaves what stood behind it, and
\* with such an instance in the queue no spawn_worker is sent: the request
\* goes on with the pooled worker's handle.
ReadyQueueIsFifo ==
    [][\A q \in Reqs :
        /\ (pc[q] = "fetched" /\ req[q].res = "ok" /\ Steps(q))
              => LET queue == apps[req[q].appid].ready_instances
                     queue2 == apps'[req[q].appid].ready_instances
                 IN  /\ Len(queue2) = Len(queue) + 1
                     /\ SubSeq(queue2, 1, Len(queue)) = queue
                     /\ queue2[Len(queue2)] = req[q].instance
        /\ (pc[q] = "get_instance" /\ Alive(q) # {} /\ Steps(q))
              => LET queue == apps[req[q].appid].ready_instances
                     queue2 == apps'[req[q].appid].ready_instances
                     i == First(Alive(q))
                 IN  /\ pc'[q] = "fetch"
                     /\ req'[q].instance =
                            [queue[i] EXCEPT !.last_active = now]
                     /\ queue2 = SubSeq(queue, i + 1, Len(queue))
                     /\ clientsQueue' = clientsQueue
        /\ (pc'[q] = "spawn_select" /\ Steps(q))
              => pc[q] = "get_instance" /\ Alive(q) = {}
        /\ (pc'[q] = "spawn_rpc" /\ Steps(q))
              => pc[q] = "spawn_select"
    ]_vars

\* A request goes on with a pooled worker, taken from the front of a queue
\* that held two: the one left was pooled after it.
WitnessWarmPath ==
    \E q \in Reqs :
        /\ pc[q] = "fetch"
        /\ ~req[q].fresh
        /\ req[q].instance.last_active = now
        /\ Len(apps[req[q].appid].ready_instances) = 1
        /\ req[q].discarded = 0

\* C7: over all ready queues no (rtid, handle) pair occurs twice, and each
\* pooled instance stands in the queue of the app it was spawned for; a
\* queue grows by one instance at a time and only when a request for that
\* app pools its instance after a successful fetch, so N successful
\* fetches leave at most N instances.
PooledInstancesUnique ==
    /\ [](\A a \in DOMAIN apps :
            LET queue == apps[a].ready_instances
            IN  /\ \A i \in 1..Len(queue) : queue[i].app = a
                /\ \A i, j \in 1..Len(queue) :
                      i # j => <<queue[i].rtid, queue[i].handle>>
                                  # <<queue[j].rtid, queue[j].handle>>
                /\ \A b \in DOMAIN apps \ {a} :
                      PairsOf(queue) \cap PairsOf(apps[b].ready_instances) = {})
    /\ [][\A a \in DOMAIN apps \cap DOMAIN apps' :
            Len(apps'[a].ready_instances) > Len(apps[a].ready_instances)
              => /\ Len(apps'[a].ready_instances)
                      = Len(apps[a].ready_instances) + 1
                 /\ \E q \in Reqs :
                      /\ pc[q] = "fetched"
                      /\ req[q].res = "ok"
                      /\ req[q].appid = a
                      /\ pc'[q] = "done"
       ]_vars

\* Both apps have instances pooled on the runtime they share, one of them
\* two.
WitnessSharedRuntime ==
    /\ DOMAIN apps = {1, 2}
    /\ Len(apps[1].ready_instances) = 2
    /\ Len(apps[2].ready_instances) >= 1
    /\ \A i \in 1..2 :
          apps[1].ready_instances[i].rtid = apps[2].ready_instances[1].rtid

\* C8: with no usable pooled instance the request reads the registry; from
\* a registry that is not empty it sends spawn_worker to a runtime whose
\* load no other runtime undercuts and no runtime of a smaller id equals;
\* from an empty registry it sends nothing and returns
\* NoAvailableInstance, which build_response turns into status 503.
SpawnsOnLeastLoaded ==
    [][\A q \in Reqs :
        (pc[q] = "spawn_select" /\ Steps(q))
          => IF DOMAIN clients = {}
             THEN /\ pc'[q] = "done"
                  /\ req'[q].result = "NoAvailableInstance"
                  /\ build_response(req'[q].result) = 503
                  /\ clientsReaders' = clientsReaders
             ELSE /\ pc'[q] = "spawn_rpc"
                  /\ req'[q].target \in DOMAIN clients
                  /\ \A r \in DOMAIN clients :
                        /\ clients[req'[q].target].load =< clients[r].load
                        /\ clients[r].load = clients[req'[q].target].load
                              => req'[q].target =< r
    ]_vars

\* spawn_worker is under way on runtime 2, whose load is below runtime 1's.
WitnessLeastLoaded ==
    \E q \in Reqs :
        /\ pc[q] = "spawn_rpc"
        /\ DOMAIN clients = {1, 2}
        /\ clients[2].load < clients[1].load
        /\ req[q].target = 2

\* C9, as the specification states it: whenever a request has resolved an
\* AppId through the route table, the apps table holds an AppState for it.
RoutedAppHasState ==
    \A q \in Reqs : req[q].appid # NoId => req[q].appid \in DOMAIN apps

\* C9, as the code has it: an AppState found under the read guard of apps
\* stays in the table for as long as the request holds the guard, whatever
\* populate_config does meanwhile; a request whose AppId has no AppState
\* at the lookup returns NoRouteMapping without touching the registry.
GuardKeepsAppState ==
    /\ [](\A q \in appsReaders : req[q].appid \in DOMAIN apps)
    /\ [][\A q \in Reqs :
            (/\ pc[q] = "apps_read"
             /\ Steps(q)
             /\ req[q].appid \notin DOMAIN apps)
              => /\ pc'[q] = "done"
                 /\ req'[q].result = "NoRouteMapping"
                 /\ clients' = clients
                 /\ clientsQueue' = clientsQueue
       ]_vars

\* populate_config waits for the write guard of apps to remove the app of
\* a request that holds the read guard.
WitnessGuardedRemoval ==
    \E q \in appsReaders :
        /\ pc[REFRESH] = "pop_apps_write"
        /\ req[q].appid \notin DOMAIN NewAppsConfig(config.apps)
        /\ req[q].appid \in DOMAIN apps

\* C10: when a refresh tick has ended without error, every app of the
\* installed Config that has no AppState had its script fetched in that
\* tick.
ScriptRetriedEveryTick ==
    (pc[REFRESH] = "idle" /\ tick.result = "ok")
      => \A a \in DOMAIN NewAppsConfig(config.apps) \ DOMAIN apps :
            a \in tick.scripts

\* The pcs of the retry loop: the request has made its second load of the
\* Config and holds the read guard of apps.
InLoop ==
    {"get_instance", "spawn_select", "spawn_rpc", "fetch", "fetched",
     "remove_client"}

\* C11: the Config a request enforces the body-size limit with (cfg_body)
\* is the Config it takes the request timeout and the instance expiration
\* from (cfg): one snapshot for the whole request, whatever a refresh
\* installs meanwhile.
OneConfigSnapshot ==
    \A q \in Reqs : pc[q] \in InLoop => req[q].cfg = req[q].cfg_body

\* C12: a pooled instance that get_instance dequeues and returns to the
\* caller refers to a runtime that is in the registry: the pooled instances
\* of a runtime removed by a failed probe or by a transport error are not
\* handed to a later request.
HandedOutAreRegistered ==
    [][\A q \in Reqs :
        (pc[q] = "get_instance" /\ pc'[q] = "fetch")
            => req'[q].instance.rtid \in DOMAIN clients
    ]_vars

\* C12, as the code has it: a step that takes runtimes out of the registry
\* leaves every ready queue as it is, and get_instance decides by age
\* alone: it returns the first pooled instance that has not expired,
\* whether or not its runtime is registered, and that instance is gone
\* from the queue.
RemovedRuntimeStaysPooled ==
    [][/\ (DOMAIN clients' # DOMAIN clients /\ DOMAIN clients' \subseteq DOMAIN clients)
            => apps' = apps
       /\ \A q \in Reqs :
            (pc[q] = "get_instance" /\ Steps(q))
                => LET queue == apps[req[q].appid].ready_instances
                   IN  /\ pc'[q] = "fetch" <=> Alive(q) # {}
                       /\ Alive(q) # {}
                            => /\ req'[q].instance.rtid
                                     = queue[First(Alive(q))].rtid
                               /\ req'[q].instance.handle
                                     = queue[First(Alive(q))].handle
                               /\ InHand(q)' \notin Pooled(apps')
    ]_vars

\* A request that nothing has disturbed since it arrived goes into fetch
\* with a pooled instance of a runtime that is not in the registry.
WitnessStaleHandedOut ==
    \E q \in Reqs :
        /\ pc[q] = "fetch"
        /\ ~req[q].fresh
        /\ req[q].quiet
        /\ req[q].instance.rtid \notin DOMAIN clients

Heard == DOMAIN bg'[PROBE].answers \ DOMAIN bg[PROBE].answers

\* The runtimes that failed load() in the probe task's run.
Silent(b) == { r \in DOMAIN b[PROBE].answers : ~b[PROBE].answers[r].ok }

\* The probe task's run of query_runtimes returns.
ProbeReturns ==
    pc[PROBE] \in {"query_scan", "query_write"} /\ pc'[PROBE] = "idle"

\* C14: when a run of query_runtimes returns, every runtime whose load()
\* failed in that run is out of the registry, whatever discover_runtimes
\* and a request do meanwhile.  A runtime whose load() succeeds has, when
\* its answer is taken, the reported value as its stored load and its
\* client as before; the scan removes nothing, and the write pass removes
\* the runtimes that failed and leaves every other entry as it is.
FailedProbeRemoves ==
    [][/\ \A r \in Heard :
            /\ DOMAIN clients' = DOMAIN clients
            /\ \A o \in DOMAIN clients \ {r} : clients'[o] = clients[o]
            /\ IF bg'[PROBE].answers[r].ok
               THEN /\ clients'[r].load = bg'[PROBE].answers[r].load
                    /\ clients'[r].client = clients[r].client
               ELSE clients'[r] = clients[r]
       /\ ProbeReturns => Silent(bg') \cap DOMAIN clients' = {}
       /\ (pc[PROBE] = "query_write" /\ pc'[PROBE] = "idle")
            => /\ Silent(bg') = Silent(bg)
               /\ DOMAIN clients' = DOMAIN clients \ Silent(bg)
               /\ \A r \in DOMAIN clients' : clients'[r] = clients[r]
    ]_vars

\* The probe has returned from a run in which one runtime failed load()
\* and another reported a load that is not the initial one, while the
\* discover task waits to write what it found: the first is out of the
\* registry, the second holds the reported load.
WitnessProbeDropsOne ==
    /\ pc[PROBE] = "idle"
    /\ pc[DISCOVER] = "disc_write"
    /\ \E r \in Silent(bg) : r \notin DOMAIN clients
    /\ \E r \in DOMAIN bg[PROBE].answers :
         /\ bg[PROBE].answers[r].ok
         /\ bg[PROBE].answers[r].load > 0
         /\ r \in DOMAIN clients
         /\ clients[r].load = bg[PROBE].answers[r].load

\* C15: discover_runtimes asks the addresses of the installed cluster and
\* keeps the (id, client) of those that answer; its write inserts, with
\* load 0 and the client of the first address that answered with that id,
\* the runtimes among them that are not registered, and leaves every
\* registered entry as it is (same client, same load).  Writing the same
\* answers once more changes nothing, and two addresses that answer with
\* one RuntimeId make one entry.
DiscoverInsertsNew ==
    [][/\ (pc[DISCOVER] = "idle" /\ pc'[DISCOVER] = "disc_write")
            => LET items == bg'[DISCOVER].new_clients
               IN  /\ clients' = clients
                   /\ \A i \in 1..Len(items) :
                        /\ items[i].client \in config.runtime_cluster
                        /\ items[i].id = AddrRt[items[i].client]
       /\ (pc[DISCOVER] = "disc_write" /\ pc'[DISCOVER] = "idle")
            => LET items == bg[DISCOVER].new_clients
                   ids == { items[i].id : i \in 1..Len(items) }
               IN  /\ DOMAIN clients' = DOMAIN clients \cup ids
                   /\ \A r \in DOMAIN clients : clients'[r] = clients[r]
                   /\ \A r \in ids \ DOMAIN clients :
                        /\ clients'[r].load = 0
                        /\ \E i \in 1..Len(items) :
                             /\ items[i].id = r
                             /\ clients'[r].client = items[i].client
                             /\ \A j \in 1..(i - 1) : items[j].id # r
                   /\ InsertNew(clients', items) = clients'
    ]_vars

\* After the probe removed a runtime that failed load() and stored another
\* runtime's load, discover_runtimes has put the first back with load 0 and
\* left the other's load as it was.
WitnessRediscovered ==
    /\ pc[PROBE] = "idle"
    /\ pc[DISCOVER] = "idle"
    /\ \E r \in Silent(bg) :
         /\ r \in DOMAIN clients
         /\ clients[r].load = 0
         /\ \E o \in DOMAIN clients \ {r} : clients[o].load > 0

\* C16: a refresh tick stores a Config and enters populate_config only
\* when the Config it fetched, the floor set appended, differs from the
\* installed one; a tick that fetched an equal Config ends ok where the
\* task stood, and the Config, the apps table, the route table, the
\* registry, both locks and the other tasks are as before: no script is
\* fetched, no runtime asked for its id or its load.
EqualConfigNoEffect ==
    [][pc[REFRESH] = "idle"
        => /\ pc'[REFRESH] # "idle"
                => /\ config' # config
                   /\ \E doc \in Docs : config' = WithAppend(doc)
                   /\ pc'[REFRESH] = "pop_apps_read"
           /\ (pc'[REFRESH] = "idle" /\ tick' # tick)
                => /\ tick'.result \in {"ok", "FetchConfig"}
                   /\ tick'.scripts = {}
                   /\ UNCHANGED << config, apps, route_mappings, clients,
                                   appsReaders, appsQueue, clientsReaders,
                                   clientsQueue, bg, pc >>
    ]_vars

\* A tick that fetched the installed document again has ended ok, with no
\* script fetched, while an app of the document still has no AppState.
WitnessEqualTick ==
    /\ pc[REFRESH] = "idle"
    /\ tick = [result |-> "ok", scripts |-> {}, evicted |-> {}]
    /\ config = WithAppend(DocTwoApps)
    /\ 1 \notin DOMAIN apps
    /\ DOMAIN clients # {}

\* The registered prefixes of a domain's prefix map that the path starts
\* with.
Matching(sub, path) == { k \in DOMAIN sub : StartsWith(path, k) }

\* C17: route resolution returns the AppId bound to the longest registered
\* prefix of the request's domain that is a prefix of the path, and fails
\* with NoRouteMapping exactly when the domain has no prefix map or none of
\* its prefixes is a prefix of the path.
LongestPrefixWins ==
    [][\A q \in Reqs :
        (pc[q] = "route" /\ Steps(q))
            => LET host == StripPort(req[q].host)
                   sub == IF host \in DOMAIN route_mappings
                          THEN route_mappings[host] ELSE <<>>
                   hits == Matching(sub, req[q].path)
               IN  IF hits = {}
                   THEN /\ pc'[q] = "done"
                        /\ req'[q].result = "NoRouteMapping"
                   ELSE /\ pc'[q] = "body"
                        /\ \E k \in hits :
                             /\ \A o \in hits : Len(o) =< Len(k)
                             /\ req'[q].appid = sub[k]
    ]_vars

\* Routes {/a, /a/b} of two apps on one domain: a request for /a/b/c is
\* about to read its body, resolved to the app of /a/b.
WitnessLongestPrefix ==
    /\ <<"x">> \in DOMAIN route_mappings
    /\ DOMAIN route_mappings[<<"x">>]
          = { <<"/", "a">>, <<"/", "a", "/", "b">> }
    /\ pc["q1"] = "body"
    /\ req["q1"].appid = route_mappings[<<"x">>][<<"/", "a", "/", "b">>]
    /\ req["q1"].appid # route_mappings[<<"x">>][<<"/", "a">>]

\* Some app of the Config has a route on the domain whose prefix the path
\* starts with.
Routed(cfg, host, path) ==
    \E i \in 1..Len(cfg.apps) :
        \E j \in 1..Len(cfg.apps[i].routes) :
            /\ cfg.apps[i].routes[j].domain = host
            /\ StartsWith(path, cfg.apps[i].routes[j].path_prefix)

\* C18: a request whose normalised host has no entry in the route table
\* fails with NoRouteMapping, status 502; so does, once a refresh has
\* installed the routes of its Config, a request that no route of any app
\* of that Config matches, such as a request for an app the Config omits.
\* The request ends at the resolution of its route: it sends no RPC and
\* leaves the registry, the apps table and both locks as they are.
NoRouteIs502 ==
    [][\A q \in Reqs :
        (pc[q] = "route" /\ Steps(q))
            => LET host == StripPort(req[q].host)
               IN  (\/ host \notin DOMAIN route_mappings
                    \/ /\ route_mappings = RoutingTable(config)
                       /\ ~Routed(config, host, req[q].path))
                     => /\ pc'[q] = "done"
                        /\ req'[q].result = "NoRouteMapping"
                        /\ build_response(req'[q].result) = 502
                        /\ req'[q].gets = 0
                        /\ UNCHANGED << clients, apps, appsReaders, appsQueue,
                                        clientsReaders, clientsQueue >>
    ]_vars

\* Scenario S6: the refresh has removed app 1 with an instance pooled and
\* installed the routes of a Config without it, and a request for app 1's
\* domain and path, which no route matches any more, has arrived.
WitnessS6 ==
    /\ pc[REFRESH] = "idle"
    /\ tick.result = "ok"
    /\ 1 \in tick.evicted
    /\ config = WithAppend(DocOneApp)
    /\ route_mappings = RoutingTable(config)
    /\ pc["q1"] = "route"
    /\ req["q1"].host = <<"x", ":", "8">>
    /\ req["q1"].path = <<"/">>
    /\ ~Routed(config, <<"x">>, <<"/">>)

\* A task is inside an operation it has started.
Busy(t) == pc[t] \notin {"idle", "done"}

\* C19: every operation that has started comes to its end, whatever the
\* other tasks do meanwhile: a request returns, and the refresh, discover
\* and probe tasks go back to idle; no task waits for ever for the guard
\* of apps or of clients.
EveryOperationFinishes ==
    \A t \in {"q1", REFRESH, PROBE, DISCOVER} : Busy(t) ~> ~Busy(t)

\* All four wait on one another: the refresh waits for the write guard of
\* apps, which the request holds for reading; the request waits for
\* clients behind the discover task, which waits to write; the probe holds
\* the read guard of clients while a runtime is asked for its load.
WitnessAllWaiting ==
    /\ pc[REFRESH] = "pop_apps_write"
    /\ "q1" \in appsReaders
    /\ clientsQueue = <<DISCOVER, "q1">>
    /\ pc[DISCOVER] = "disc_write"
    /\ pc[PROBE] = "query_scan"
    /\ PROBE \in clientsReaders

\* C20: when spawn_worker fails, by a transport error or by an error the
\* runtime answers with, the request returns that error at that step,
\* however many attempts remain; the registry keeps the runtime it was sent
\* to and no ready queue changes.  A request that finds the registry empty,
\* on its first attempt or on a retry after the last runtime was removed,
\* returns NoAvailableInstance.  A spawn_worker that succeeds takes the
\* request to fetch with the new instance.
SpawnFailureEndsRequest ==
    [][\A q \in Reqs :
        /\ (pc[q] = "spawn_rpc" /\ Steps(q))
              => /\ clients' = clients
                 /\ apps' = apps
                 /\ \/ /\ pc'[q] = "fetch"
                       /\ req'[q].fresh
                       /\ req'[q].instance.rtid = req[q].target
                       /\ req'[q].attempt = req[q].attempt
                    \/ /\ pc'[q] = "done"
                       /\ req'[q].result \in {"RpcError", "GenericError"}
                       /\ req[q].target \in DOMAIN clients'
        /\ (pc[q] = "spawn_select" /\ Steps(q))
              => /\ clients' = clients
                 /\ apps' = apps
                 /\ IF DOMAIN clients = {}
                    THEN /\ pc'[q] = "done"
                         /\ req'[q].result = "NoAvailableInstance"
                    ELSE pc'[q] = "spawn_rpc"
        /\ (pc'[q] = "done" /\ Steps(q)
              /\ req'[q].result \in {"RpcError", "NoAvailableInstance"})
              => pc[q] \in {"spawn_rpc", "spawn_select"}
    ]_vars

\* The first attempt of an undisturbed request spawned a worker on the one
\* runtime and its fetch died at transport level; the runtime is gone and
\* the retry, with attempts left, waits to look into the empty registry.
WitnessRetryFindsNone ==
    \E q \in Reqs :
        /\ pc[q] = "spawn_select"
        /\ req[q].attempt = 1
        /\ req[q].quiet
        /\ Len(req[q].log) = 1
        /\ req[q].log[1].fresh
        /\ req[q].log[1].res = "transport"
        /\ clients = <<>>

====
